---- MODULE Spec2Model ----
(***************************************************************************)
(* Trajectory / transition containers and the detailed-balance loss of    *)
(* gfn: gfn/containers/trajectories.py and gfn/losses/detailed_balance.py *)
(*                                                                         *)
(* A 2-D tensor of shape (T, N) is a record [len |-> T, cols |-> c] with   *)
(* c a sequence of N columns (one per trajectory), each of length T, so    *)
(* that the shapes (T, 0) and (0, N) stay distinct, as they do in torch.   *)
(* A raised exception is an outcome: every operation returns a record      *)
(* with an err flag and whatever mutation happened before the raise.       *)
(***************************************************************************)
EXTENDS Integers, Sequences, FiniteSets, TLC

VARIABLES pool, last, hist, trans, loss

vars == <<pool, last, hist, trans, loss>>

-----------------------------------------------------------------------------
(* Bounds of the model *)

\* largest number of trajectories a container may hold
MaxTraj == 2

\* largest required_first_dim handed to extend_actions directly
MaxReq == 2

-----------------------------------------------------------------------------
(* Sentinels of the environment *)

\* fill_value of padded action cells
PadAction == -1

\* env.n_actions; the exit action is n_actions - 1
n_actions == 3

ExitAction == n_actions - 1

\* env.s0, the initial state
s0 == 0

\* env.s_f, the sink state
s_f == -1

Slots == {"a", "b"}

FieldNames == {"rewards", "log_pfs", "log_pbs"}

-----------------------------------------------------------------------------
(* Tensor primitives *)

Max(a, b) == IF a >= b THEN a ELSE b

Min(a, b) == IF a <= b THEN a ELSE b

RECURSIVE SeqMax(_)
\* tensor.max() of a non-empty 1-D tensor
SeqMax(s) == IF Len(s) = 1 THEN s[1] ELSE Max(s[1], SeqMax(Tail(s)))

Rep(n, v) == [k \in 1..n |-> v]

\* a float, held in thousandths
Milli(x) == 1000 * x

\* torch.full(size=(rows, ncols), fill_value=v)
Full(rows, ncols, v) == [len |-> rows, cols |-> Rep(ncols, Rep(rows, v))]

NCols(x) == Len(x.cols)

\* torch.cat((x, y), dim=0) is defined when the column counts agree
CanCatDim0(x, y) == NCols(x) = NCols(y)

CatDim0(x, y) ==
    [len |-> x.len + y.len, cols |-> [i \in 1..NCols(x) |-> x.cols[i] \o y.cols[i]]]

\* torch.cat((x, y), dim=1) is defined when the time lengths agree
CanCatDim1(x, y) == x.len = y.len

CatDim1(x, y) == [len |-> x.len, cols |-> x.cols \o y.cols]

\* x[:k]
TakeRows(x, k) ==
    LET n == Min(Max(k, 0), x.len)
    IN  [len |-> n, cols |-> [i \in 1..NCols(x) |-> SubSeq(x.cols[i], 1, n)]]

\* x[:, index]
SelectCols(x, index) ==
    [len |-> x.len, cols |-> [j \in 1..Len(index) |-> x.cols[index[j]]]]

\* v[index] of a 1-D tensor
Select1D(v, index) == [j \in 1..Len(index) |-> v[index[j]]]

\* an optional 1-D field: None, or a tensor
None == [present |-> FALSE, val |-> <<>>]

Some(v) == [present |-> TRUE, val |-> v]

-----------------------------------------------------------------------------
(* Trajectories *)

\* Trajectories.__init__ with every tensor given
Trajectories(states, actions, when_is_done, is_backward, rewards, log_pfs, log_pbs) ==
    [states |-> states, actions |-> actions, when_is_done |-> when_is_done,
     is_backward |-> is_backward, rewards |-> rewards,
     log_pfs |-> log_pfs, log_pbs |-> log_pbs]

\* Trajectories.__init__ with states, actions and when_is_done omitted
EmptyTrajectories(is_backward) ==
    Trajectories(Full(0, 0, s_f), Full(0, 0, PadAction), <<>>, is_backward,
                 None, None, None)

n_trajectories(c) == NCols(c.states)

max_length(c) == IF n_trajectories(c) = 0 THEN 0 ELSE c.actions.len

\* Trajectories.extend_actions: [err, c]
extend_actions(c, required_first_dim) ==
    IF max_length(c) >= required_first_dim
    THEN [err |-> FALSE, c |-> c]
    ELSE LET rows == required_first_dim - c.actions.len
         IN  IF rows < 0 \/ ~CanCatDim0(c.actions, Full(rows, n_trajectories(c), PadAction))
             THEN [err |-> TRUE, c |-> c]
             ELSE [err |-> FALSE,
                   c |-> [c EXCEPT !.actions =
                            CatDim0(c.actions, Full(rows, n_trajectories(c), PadAction))]]

\* States.extend_with_sf: pad the time axis of a states batch with s_f
extend_with_sf(st, required_first_dim) ==
    IF st.len >= required_first_dim THEN st
    ELSE CatDim0(st, Full(required_first_dim - st.len, NCols(st), s_f))

\* States.extend for 2-D batches: both operands padded, then joined
states_extend(st, other) ==
    LET req == Max(st.len, other.len)
    IN  [self |-> CatDim1(extend_with_sf(st, req), extend_with_sf(other, req)),
         other |-> extend_with_sf(other, req)]

\* a slip: the receiver's field kept when the operand has none
extend_field_keeps_own(f, g) == IF f.present /\ g.present THEN Some(f.val \o g.val) ELSE f

\* the optional-field merge of Trajectories.extend
extend_field(f, g) == IF f.present /\ g.present THEN Some(f.val \o g.val) ELSE None

\* Trajectories.extend: [err, self, other]
extend(self, other) ==
    LET r1 == extend_actions(self, Max(max_length(self), max_length(other)))
    IN  IF r1.err THEN [err |-> TRUE, self |-> self, other |-> other]
        ELSE
        LET r2 == extend_actions(other, Max(max_length(r1.c), max_length(other)))
        IN  IF r2.err THEN [err |-> TRUE, self |-> r1.c, other |-> other]
            ELSE
            LET st == states_extend(r1.c.states, r2.c.states)
                o2 == [r2.c EXCEPT !.states = st.other]
                s2 == [r1.c EXCEPT !.states = st.self]
            IN  IF ~CanCatDim1(s2.actions, o2.actions)
                THEN [err |-> TRUE, self |-> s2, other |-> o2]
                ELSE [err |-> FALSE,
                      self |-> [s2 EXCEPT
                          !.actions = CatDim1(s2.actions, o2.actions),
                          !.when_is_done = s2.when_is_done \o o2.when_is_done,
                          !.log_pfs = extend_field(s2.log_pfs, o2.log_pfs),
                          !.log_pbs = extend_field(s2.log_pbs, o2.log_pbs),
                          !.rewards = extend_field(s2.rewards, o2.rewards)],
                      other |-> o2]

\* the optional-field slice of Trajectories.__getitem__
getitem_field(f, index) == IF f.present THEN Some(Select1D(f.val, index)) ELSE None

\* Trajectories.__getitem__
getitem(c, index) ==
    LET when_is_done == Select1D(c.when_is_done, index)
        new_max_length == IF Len(when_is_done) > 0 THEN SeqMax(when_is_done) ELSE 0
    IN  Trajectories(TakeRows(SelectCols(c.states, index), 1 + new_max_length),
                     TakeRows(SelectCols(c.actions, index), new_max_length),
                     when_is_done, c.is_backward,
                     getitem_field(c.rewards, index),
                     getitem_field(c.log_pfs, index),
                     getitem_field(c.log_pbs, index))

\* the (time, trajectory) cells of a (rows, ncols) tensor in the row-major
\* order in which boolean-mask indexing flattens them
Cells(rows, ncols) ==
    [k \in 1..(rows * ncols) |-> <<((k - 1) \div ncols) + 1, ((k - 1) % ncols) + 1>>]

\* torch.cat([values[keys == k] for k in range(hi + 1)], dim=0)
RECURSIVE GroupByKey(_, _, _)
GroupByKey(values, keys, hi) ==
    IF hi < 0 THEN <<>>
    ELSE GroupByKey(values, keys, hi - 1) \o
         Select1D(values, SelectSeq([i \in 1..Len(keys) |-> i], LAMBDA i : keys[i] = hi))

\* a slip: the rewards handed out in trajectory order
ungrouped_rewards(c) == c.rewards.val

\* the per-trajectory rewards in the order to_transitions hands them out
grouped_rewards(c) == GroupByKey(c.rewards.val, c.when_is_done, SeqMax(c.when_is_done))

\* target[mask] = values: values go to the selected places in order, a single
\* value is broadcast, any other count is a shape mismatch
CanMaskedAssign(mask, values) ==
    LET n == Len(SelectSeq(mask, LAMBDA b : b))
    IN  Len(values) = n \/ Len(values) = 1

MaskedAssign(target, mask, values) ==
    [j \in 1..Len(target) |->
        IF mask[j]
        THEN IF Len(values) = 1 THEN values[1]
             ELSE values[Len(SelectSeq(SubSeq(mask, 1, j), LAMBDA b : b))]
        ELSE target[j]]

\* a slip: the sink state looked for whatever the direction
is_done_forward_only(next_states, is_backward) ==
    [j \in 1..Len(next_states) |-> next_states[j] = s_f]

\* is_sink_state / is_initial_state of the next states, by direction
is_done_of(next_states, is_backward) ==
    [j \in 1..Len(next_states) |->
        IF is_backward THEN next_states[j] = s0 ELSE next_states[j] = s_f]

NoTransitions ==
    [err |-> TRUE, states |-> <<>>, actions |-> <<>>, next_states |-> <<>>,
     is_done |-> <<>>, rewards |-> None, is_backward |-> FALSE]

\* Trajectories.to_transitions: [err, states, actions, next_states, is_done,
\* rewards, is_backward]
to_transitions(c) ==
    LET T == c.actions.len
        N == NCols(c.actions)
        real == SelectSeq(Cells(T, N),
                          LAMBDA cell : c.actions.cols[cell[2]][cell[1]] # PadAction)
        states == [j \in 1..Len(real) |-> c.states.cols[real[j][2]][real[j][1]]]
        next_states == [j \in 1..Len(real) |-> c.states.cols[real[j][2]][real[j][1] + 1]]
        actions == [j \in 1..Len(real) |-> c.actions.cols[real[j][2]][real[j][1]]]
        is_done == is_done_of(next_states, c.is_backward)
        out == [err |-> FALSE, states |-> states, actions |-> actions,
                next_states |-> next_states, is_done |-> is_done,
                rewards |-> None, is_backward |-> c.is_backward]
    IN  IF Max(c.states.len - 1, 0) # T \/ NCols(c.states) # N
        THEN NoTransitions
        ELSE IF ~c.rewards.present THEN out
        ELSE IF Len(c.when_is_done) = 0 \/ Len(c.rewards.val) # Len(c.when_is_done)
        THEN NoTransitions
        ELSE IF ~CanMaskedAssign(is_done, grouped_rewards(c))
        THEN NoTransitions
        ELSE [out EXCEPT !.rewards =
                Some(MaskedAssign(Rep(Len(real), Milli(-1)), is_done, grouped_rewards(c)))]

\* a slip: the flip left out
not_flipped(q) == q

\* q.flip(0)
Reverse(q) == [k \in 1..Len(q) |-> q[Len(q) + 1 - k]]

\* Trajectories.revert_backward_trajectories: [err, c]
revert_backward_trajectories(c) ==
    IF \/ ~c.is_backward
       \/ NCols(c.actions) # n_trajectories(c)
       \/ Len(c.when_is_done) = 0
       \/ Len(c.when_is_done) # n_trajectories(c)
       \/ \E i \in 1..Len(c.when_is_done) :
              c.when_is_done[i] > c.actions.len \/ c.when_is_done[i] + 1 > c.states.len
    THEN [err |-> TRUE, c |-> c]
    ELSE
    LET n == n_trajectories(c)
        rows == SeqMax(c.when_is_done) + 1
        new_actions ==
            [len |-> c.actions.len + 1,
             cols |-> [i \in 1..n |->
                 LET w == c.when_is_done[i]
                 IN  Reverse(SubSeq(c.actions.cols[i], 1, w))
                     \o <<n_actions - 1>>
                     \o Rep(c.actions.len - w, PadAction)]]
        new_states ==
            [len |-> rows,
             cols |-> [i \in 1..n |->
                 LET w == c.when_is_done[i]
                 IN  Reverse(SubSeq(c.states.cols[i], 1, w + 1))
                     \o Rep(rows - (w + 1), s_f)]]
    IN  [err |-> FALSE,
         c |-> Trajectories(new_states, new_actions,
                            [i \in 1..n |-> c.when_is_done[i] + 1],
                            FALSE, None, None, None)]

-----------------------------------------------------------------------------
(* Floats: a finite value in thousandths, an infinity, or NaN *)

Fin(v) == [k |-> "fin", v |-> v]

PosInf == [k |-> "pinf", v |-> 0]

NegInf == [k |-> "ninf", v |-> 0]

NaN == [k |-> "nan", v |-> 0]

FNeg(x) ==
    CASE x.k = "fin" -> Fin(0 - x.v)
      [] x.k = "pinf" -> NegInf
      [] x.k = "ninf" -> PosInf
      [] x.k = "nan" -> NaN

FAdd(x, y) ==
    IF x.k = "nan" \/ y.k = "nan" THEN NaN
    ELSE IF x.k = "fin" /\ y.k = "fin" THEN Fin(x.v + y.v)
    ELSE IF x.k = "fin" THEN y
    ELSE IF y.k = "fin" THEN x
    ELSE IF x.k = y.k THEN x
    ELSE NaN

FSub(x, y) == FAdd(x, FNeg(y))

\* x ** 2
FSquare(x) ==
    CASE x.k = "fin" -> Fin((x.v * x.v) \div 1000)
      [] x.k = "nan" -> NaN
      [] OTHER -> PosInf

\* the natural logarithm of the positive rewards of the model, in thousandths
LnMilli(v) ==
    CASE v = 1000 -> 0
      [] v = 2000 -> 693
      [] v = 3000 -> 1099

\* torch.log of a float held in thousandths
FLog(v) ==
    IF v > 0 THEN Fin(LnMilli(v))
    ELSE IF v = 0 THEN NegInf
    ELSE NaN

RECURSIVE FSum(_)
FSum(q) == IF Len(q) = 0 THEN Fin(0) ELSE FAdd(q[1], FSum(Tail(q)))

\* torch.mean: NaN for an empty tensor
FMean(q) ==
    IF Len(q) = 0 THEN NaN
    ELSE LET t == FSum(q)
         IN  IF t.k = "fin" THEN Fin(t.v \div Len(q)) ELSE t

-----------------------------------------------------------------------------
(* Detailed balance *)

\* log_softmax of the backward policy's logits at state, taken at action
LogPB(state, action) == Fin(0 - (100 * (state + 2) + 10 * action))

\* q[mask]
Masked(q, mask) ==
    Select1D(q, SelectSeq([j \in 1..Len(q) |-> j], LAMBDA j : mask[j]))

Not(mask) == [j \in 1..Len(mask) |-> ~mask[j]]

\* a slip: the exit action taken for n_actions
non_exit_off_by_one(valid_actions) ==
    Masked(valid_actions, [j \in 1..Len(valid_actions) |-> valid_actions[j] # n_actions])

\* valid_actions[valid_actions != env.n_actions - 1]
non_exit(valid_actions) ==
    Masked(valid_actions,
           [j \in 1..Len(valid_actions) |-> valid_actions[j] # n_actions - 1])

NoScores ==
    [err |-> TRUE, log_pf_actions |-> <<>>, log_pb_actions |-> <<>>, scores |-> <<>>,
     pb_states |-> <<>>, pb_index |-> <<>>]

\* DetailedBalance.get_scores, the forward policy's gathered log-probabilities
\* being log_pf and the flow estimator logF: [err, log_pf_actions,
\* log_pb_actions, scores], with the operands of the backward gather
get_scores(tr, log_pf, logF) ==
    LET valid_states == Masked(tr.states, [j \in 1..Len(tr.states) |-> tr.states[j] # s_f])
        valid_actions == Masked(tr.actions, [j \in 1..Len(tr.actions) |-> tr.actions[j] # PadAction])
        n == Len(valid_states)
        valid_log_pf_actions == [j \in 1..n |-> log_pf[j]]
        preds == [j \in 1..n |-> FAdd(valid_log_pf_actions[j], logF[valid_states[j]])]
        zeros == Rep(n, Fin(0))
        valid_next_states == Masked(tr.next_states, Not(tr.is_done))
        non_exit_valid_actions == non_exit(valid_actions)
        valid_log_pb_actions ==
            [k \in 1..Len(non_exit_valid_actions) |->
                LogPB(valid_next_states[k], non_exit_valid_actions[k])]
        valid_transitions_is_done ==
            Masked(tr.is_done, [j \in 1..Len(tr.states) |-> tr.states[j] # s_f])
        valid_log_F_s_next == [k \in 1..Len(valid_next_states) |-> logF[valid_next_states[k]]]
        targets1 == MaskedAssign(zeros, Not(valid_transitions_is_done), valid_log_pb_actions)
        added == [k \in 1..Len(valid_log_F_s_next) |->
                     FAdd(Masked(targets1, Not(valid_transitions_is_done))[k],
                          valid_log_F_s_next[k])]
        targets2 == MaskedAssign(targets1, Not(valid_transitions_is_done), added)
        valid_transitions_rewards ==
            Masked(tr.rewards.val, [j \in 1..Len(tr.states) |-> tr.states[j] # s_f])
        logs == [k \in 1..Len(Masked(valid_transitions_rewards, valid_transitions_is_done)) |->
                    FLog(Masked(valid_transitions_rewards, valid_transitions_is_done)[k])]
        targets3 == MaskedAssign(targets2, valid_transitions_is_done, logs)
    IN  IF tr.is_backward THEN NoScores
        ELSE IF Len(valid_states) # Len(valid_actions) THEN NoScores
        ELSE IF Len(non_exit_valid_actions) > Len(valid_next_states) THEN NoScores
        ELSE IF ~CanMaskedAssign(Not(valid_transitions_is_done), valid_log_pb_actions)
        THEN NoScores
        ELSE IF Len(valid_log_F_s_next) # Len(Masked(zeros, Not(valid_transitions_is_done)))
        THEN NoScores
        ELSE IF ~tr.rewards.present THEN NoScores
        ELSE [err |-> FALSE,
              log_pf_actions |-> valid_log_pf_actions,
              log_pb_actions |-> targets1,
              scores |-> [j \in 1..n |-> FSub(preds[j], targets3[j])],
              pb_states |-> valid_next_states,
              pb_index |-> non_exit_valid_actions]

NoLoss == [outcome |-> "none", value |-> NaN, scores |-> NoScores]

\* DetailedBalance.__call__: [outcome, value, scores]
detailed_balance(tr, log_pf, logF) ==
    LET r == get_scores(tr, log_pf, logF)
        value == FMean([j \in 1..Len(r.scores) |-> FSquare(r.scores[j])])
    IN  IF r.err THEN [outcome |-> "raised", value |-> NaN, scores |-> r]
        ELSE IF value.k = "nan" THEN [outcome |-> "loss is nan", value |-> value, scores |-> r]
        ELSE [outcome |-> "returned", value |-> value, scores |-> r]

-----------------------------------------------------------------------------
(* Input trajectories.  A complete forward trajectory of length w holds w  *)
(* real actions and the states before each of them, followed by s_f; a     *)
(* backward one holds w real actions and w + 1 states, the last being s0.  *)

Traj(w, actions, states) == [w |-> w, actions |-> actions, states |-> states]

ForwardLibrary ==
    { Traj(1, <<ExitAction>>, <<s0, s_f>>),
      Traj(2, <<0, ExitAction>>, <<s0, 1, s_f>>),
      Traj(2, <<1, ExitAction>>, <<s0, 2, s_f>>) }

RECURSIVE SeqsUpTo(_, _)
\* the sequences over S of length at most n
SeqsUpTo(S, n) ==
    IF n = 0 THEN {<<>>}
    ELSE LET shorter == SeqsUpTo(S, n - 1)
         IN  shorter \cup {Append(q, x) : q \in {r \in shorter : Len(r) = n - 1}, x \in S}

\* the state padding of a direction
PadState(is_backward) == IF is_backward THEN s0 ELSE s_f

PadTo(col, n, v) == col \o Rep(n - Len(col), v)

\* env.reward of a terminating state
Reward(state) == Milli(state + 1)

\* the sampler's log-probabilities of a trajectory, told by its last real state
LogPfOf(state) == 0 - 100 * (state + 1)

LogPbOf(state) == 0 - 10 * (state + 1)

\* the state a trajectory terminates in: states[when_is_done - 1] forward
LastState(t) == IF t.w >= 1 THEN t.states[t.w] ELSE s0

\* the tensors a sampler hands to Trajectories.__init__ for the trajectories ts
Batch(ts, time_len, is_backward, fields) ==
    Trajectories(
        [len |-> time_len + 1,
         cols |-> [i \in 1..Len(ts) |-> PadTo(ts[i].states, time_len + 1, PadState(is_backward))]],
        [len |-> time_len,
         cols |-> [i \in 1..Len(ts) |-> PadTo(ts[i].actions, time_len, PadAction)]],
        [i \in 1..Len(ts) |-> ts[i].w],
        is_backward,
        IF "rewards" \in fields THEN Some([i \in 1..Len(ts) |-> Reward(LastState(ts[i]))]) ELSE None,
        IF "log_pfs" \in fields THEN Some([i \in 1..Len(ts) |-> LogPfOf(LastState(ts[i]))]) ELSE None,
        IF "log_pbs" \in fields THEN Some([i \in 1..Len(ts) |-> LogPbOf(LastState(ts[i]))]) ELSE None)

\* the longest trajectory of a non-empty batch
MaxW(ts) == SeqMax([i \in 1..Len(ts) |-> ts[i].w])

PresentFields(c) == {f \in FieldNames : c[f].present}

-----------------------------------------------------------------------------
(* Container operations as steps.  last records the step just taken with   *)
(* the pool it started from; hist[s].fields is the set of optional fields  *)
(* present on slot s as constructed and on every operand merged into it    *)
(* since, and hist[s].padded tells that extend_actions was called on it    *)
(* from outside extend.                                                    *)

NoStep ==
    [op |-> "init", self |-> "a", other |-> "a", arg |-> <<>>, err |-> FALSE,
     pre |-> <<>>, prehist |-> <<>>]

\* a step whose effect is told against the pool it started from
Step(op, self, other, arg, err) ==
    [op |-> op, self |-> self, other |-> other, arg |-> arg, err |-> err,
     pre |-> pool, prehist |-> hist]

\* a step that builds a new container
Built(op, self, other, arg) ==
    [op |-> op, self |-> self, other |-> other, arg |-> arg, err |-> FALSE,
     pre |-> <<>>, prehist |-> <<>>]

FreshHist(c) == [fields |-> PresentFields(c), padded |-> FALSE]

InitContainers ==
    /\ pool = [s \in Slots |-> EmptyTrajectories(FALSE)]
    /\ last = NoStep
    /\ hist = [s \in Slots |-> FreshHist(EmptyTrajectories(FALSE))]
    /\ trans = NoTransitions
    /\ loss = NoLoss

\* Trajectories(env, states, actions, when_is_done, ...) built into slot s
Construct(s, library, fieldsets) ==
    \E ts \in SeqsUpTo(library, MaxTraj), fields \in fieldsets :
        LET c == IF Len(ts) = 0 THEN EmptyTrajectories(FALSE)
                 ELSE Batch(ts, MaxW(ts), FALSE, fields)
        IN  /\ pool' = [pool EXCEPT ![s] = c]
            /\ last' = Built("construct", s, s, <<>>)
            /\ hist' = [hist EXCEPT ![s] = FreshHist(c)]
            /\ UNCHANGED <<trans, loss>>

\* pool[t] = pool[s][index]
Slice(s, t) ==
    \E index \in SeqsUpTo(1..n_trajectories(pool[s]), MaxTraj) :
        LET c == getitem(pool[s], index)
        IN  /\ pool' = [pool EXCEPT ![t] = c]
            /\ last' = Built("getitem", s, t, index)
            /\ hist' = [hist EXCEPT ![t] = [fields |-> PresentFields(c),
                                            padded |-> hist[s].padded]]
            /\ UNCHANGED <<trans, loss>>

\* pool[s].extend(pool[t])
Extend(s, t) ==
    /\ s # t
    /\ pool[s].is_backward = pool[t].is_backward
    /\ n_trajectories(pool[s]) + n_trajectories(pool[t]) <= MaxTraj
    /\ LET r == extend(pool[s], pool[t])
       IN  /\ pool' = [pool EXCEPT ![s] = r.self, ![t] = r.other]
           /\ last' = Step("extend", s, t, <<>>, r.err)
           /\ hist' = [hist EXCEPT ![s] =
                  [fields |-> IF r.err THEN hist[s].fields
                              ELSE hist[s].fields \cap PresentFields(pool[t]),
                   padded |-> hist[s].padded \/ hist[t].padded]]
    /\ UNCHANGED <<trans, loss>>

\* pool[s].extend_actions(required_first_dim)
ExtendActionsTo(s) ==
    \E required_first_dim \in 0..MaxReq :
        LET r == extend_actions(pool[s], required_first_dim)
        IN  /\ pool' = [pool EXCEPT ![s] = r.c]
            /\ last' = Step("extend_actions", s, s, <<required_first_dim>>, r.err)
            /\ hist' = [hist EXCEPT ![s].padded = TRUE]
            /\ UNCHANGED <<trans, loss>>

ConstructPlain == \E s \in Slots : Construct(s, ForwardLibrary, {{}})

SliceAny == \E s \in Slots, t \in Slots : Slice(s, t)

ExtendAny == \E s \in Slots, t \in Slots : Extend(s, t)

ExtendActionsAny == \E s \in Slots : ExtendActionsTo(s)

NextShape == ConstructPlain \/ SliceAny \/ ExtendAny \/ ExtendActionsAny

SpecShape == InitContainers /\ [][NextShape]_vars

\* the trajectories cached fields are followed on
CachedLibrary == {t \in ForwardLibrary : LastState(t) \in {s0, 1}}

\* the operand: a sampled batch with any of its cached fields
ConstructCached == Construct("b", CachedLibrary, SUBSET FieldNames)

\* the receiver: trajectories taken out of a sampled batch
SliceReceiver == Slice("b", "a")

ExtendReceiver == Extend("a", "b")

NextFields == ConstructCached \/ SliceReceiver \/ ExtendReceiver

SpecFields == InitContainers /\ [][NextFields]_vars

-----------------------------------------------------------------------------
(* Deriving transitions, and reverting backward batches *)

\* forward inputs: complete trajectories, and one that never left the sink
TransitionLibrary == ForwardLibrary \cup {Traj(0, <<>>, <<s_f>>)}

BackwardLibrary ==
    { Traj(0, <<>>, <<s0>>),
      Traj(1, <<0>>, <<1, s0>>),
      Traj(2, <<1, 0>>, <<3, 2, s0>>) }

RewardVals == {Milli(1), Milli(2)}

\* sampled batches: forward ones with or without cached rewards, backward
\* ones without, each as long as its longest trajectory or one step longer
InputBatches(fwd, bwd, rewardvals) ==
    LET forward == SeqsUpTo(fwd, MaxTraj) \ {<<>>}
        backward == SeqsUpTo(bwd, MaxTraj) \ {<<>>}
    IN  {Batch(ts, MaxW(ts) + pad, FALSE, {}) : ts \in forward, pad \in {0, 1}}
        \cup {[Batch(ts, MaxW(ts), FALSE, {}) EXCEPT !.rewards = Some(r)] :
                 ts \in forward, r \in UNION {[1..n -> rewardvals] : n \in 1..MaxTraj}}
        \cup {Batch(ts, MaxW(ts) + pad, TRUE, {}) : ts \in backward, pad \in {0, 1}}
        \cup {EmptyTrajectories(TRUE)}

WellFormedInput(c) ==
    c.rewards.present => Len(c.rewards.val) = n_trajectories(c)

InitBatch(fwd, bwd, rewardvals) ==
    /\ pool \in [Slots -> InputBatches(fwd, bwd, rewardvals)]
    /\ WellFormedInput(pool["a"])
    /\ pool["b"] = EmptyTrajectories(TRUE)
    /\ last = NoStep
    /\ hist = [s \in Slots |-> FreshHist(pool[s])]
    /\ trans = NoTransitions
    /\ loss = NoLoss

\* trans = pool[s].to_transitions()
ToTransitions(s) ==
    /\ trans' = to_transitions(pool[s])
    /\ last' = Step("to_transitions", s, s, <<>>, trans'.err)
    /\ UNCHANGED <<pool, hist, loss>>

\* pool[t] = Trajectories.revert_backward_trajectories(pool[s])
RevertBackward(s, t) ==
    LET r == revert_backward_trajectories(pool[s])
    IN  /\ pool' = IF r.err THEN pool ELSE [pool EXCEPT ![t] = r.c]
        /\ last' = Step("revert", s, t, <<>>, r.err)
        /\ hist' = IF r.err THEN hist ELSE [hist EXCEPT ![t] = FreshHist(r.c)]
        /\ UNCHANGED <<trans, loss>>

SliceInput == Slice("a", "a")

TransitionsOfInput == ToTransitions("a")

NextTransitions == SliceInput \/ TransitionsOfInput

SpecTransitions ==
    InitBatch(TransitionLibrary, BackwardLibrary, RewardVals) /\ [][NextTransitions]_vars

RevertInput == RevertBackward("a", "b")

TransitionsOfReverted == ToTransitions("b")

NextRevert == SliceInput \/ RevertInput \/ TransitionsOfReverted

SpecRevert == InitBatch({}, BackwardLibrary, RewardVals) /\ [][NextRevert]_vars

\* forward inputs of the loss: exit-terminated trajectories, and one that the
\* environment absorbed after a non-exit action
LossLibrary == ForwardLibrary \cup {Traj(2, <<0, 1>>, <<s0, 1, s_f>>)}

LossRewardVals == RewardVals \cup {Milli(0)}

LossStates == {s0, 1, 2}

\* the log-flow estimators tried
LogFs == {[x \in LossStates |-> Fin(0)], [x \in LossStates |-> Fin(200 * x)]}

\* the forward log-probabilities tried: finite, but for at most one -inf
LogPfs(n) ==
    {[j \in 1..n |-> IF j = masked THEN NegInf ELSE Fin(0 - 500 * j)] : masked \in 0..n}

\* loss = DetailedBalance(parametrization)(trans)
Loss ==
    /\ ~trans.err
    /\ \E logF \in LogFs, log_pf \in LogPfs(Len(trans.actions)) :
          /\ loss' = detailed_balance(trans, log_pf, logF)
          /\ last' = Step("loss", "a", "a", <<>>, loss'.outcome # "returned")
    /\ UNCHANGED <<pool, hist, trans>>

NextLoss == TransitionsOfInput \/ Loss

SpecLoss == InitBatch(LossLibrary, {}, LossRewardVals) /\ [][NextLoss]_vars

-----------------------------------------------------------------------------
(* Properties of the container operations *)

\* a container built by Construct, Slice and Extend alone
Unpadded(h) == ~h.padded

\* C3: every container reachable by Construct, Slice and Extend has one more
\* time step of states than of actions, whatever its number of trajectories.
C3_ShapeInvariant ==
    \A s \in Slots :
        Unpadded(hist[s]) => pool[s].states.len = pool[s].actions.len + 1

\* C4: A.extend(B) on containers reachable by Construct, Slice and Extend
\* completes, leaves len(A) + len(B) trajectories and an action time axis of
\* max(A.max_length, B.max_length), and keeps every trajectory's when_is_done
\* and real actions in its column, the added cells being -1.
C4_ExtendConcatenates ==
    (last.op = "extend" /\ Unpadded(last.prehist[last.self])
                        /\ Unpadded(last.prehist[last.other])) =>
        LET A == last.pre[last.self]
            B == last.pre[last.other]
            R == pool[last.self]
            nA == n_trajectories(A)
            nB == n_trajectories(B)
            T == Max(max_length(A), max_length(B))
        IN  /\ ~last.err
            /\ n_trajectories(R) = nA + nB
            /\ NCols(R.actions) = nA + nB
            /\ R.actions.len = T
            /\ Len(R.when_is_done) = nA + nB
            /\ \A j \in 1..nA :
                  /\ R.when_is_done[j] = A.when_is_done[j]
                  /\ R.actions.cols[j] = PadTo(A.actions.cols[j], T, PadAction)
            /\ \A k \in 1..nB :
                  /\ R.when_is_done[nA + k] = B.when_is_done[k]
                  /\ R.actions.cols[nA + k] = PadTo(B.actions.cols[k], T, PadAction)

\* C6: extend_actions(required_length) on a container reachable by Construct,
\* Slice and Extend leaves an action time axis of max(previous, required),
\* keeps the old cells, fills the new ones with -1, changes nothing when the
\* axis was long enough, and changes nothing when applied a second time.
C6_ExtendActionsPads ==
    (last.op = "extend_actions" /\ Unpadded(last.prehist[last.self])) =>
        LET P == last.pre[last.self]
            R == pool[last.self]
            req == last.arg[1]
            T == Max(P.actions.len, req)
        IN  /\ ~last.err
            /\ R.actions.len = T
            /\ NCols(R.actions) = NCols(P.actions)
            /\ \A i \in 1..NCols(P.actions) :
                  R.actions.cols[i] = PadTo(P.actions.cols[i], T, PadAction)
            /\ (P.actions.len >= req => R = P)
            /\ extend_actions(R, req) = [err |-> FALSE, c |-> R]

\* the cached value field f holds for a trajectory ending in state
FieldOf(f, state) ==
    CASE f = "rewards" -> Reward(state)
      [] f = "log_pfs" -> LogPfOf(state)
      [] f = "log_pbs" -> LogPbOf(state)

\* last_states: states[when_is_done - 1, arange(n)]
last_states(c) ==
    [i \in 1..n_trajectories(c) |-> c.states.cols[i][c.when_is_done[i]]]

\* C5: a cached field of a receiver is present exactly when it was present
\* on the receiver as built and on every operand extended into it, extend
\* never brings an absent field back, and a present field holds one entry
\* per trajectory, entry i being that of trajectory i.
C5_FieldsSurviveOnlyIfOnBoth ==
    /\ \A s \in Slots :
          /\ PresentFields(pool[s]) = hist[s].fields
          /\ \A f \in PresentFields(pool[s]) :
                /\ Len(pool[s][f].val) = n_trajectories(pool[s])
                /\ \A i \in 1..n_trajectories(pool[s]) :
                      pool[s][f].val[i] = FieldOf(f, last_states(pool[s])[i])
    /\ last.op = "extend" =>
          PresentFields(pool[last.self]) \subseteq PresentFields(last.pre[last.self])

\* an extend that merged two non-empty batches, kept the rewards both had
\* and dropped the log_pfs only the receiver had
C5_Witness ==
    /\ last.op = "extend" /\ ~last.err
    /\ n_trajectories(last.pre[last.self]) >= 1
    /\ n_trajectories(last.pre[last.other]) >= 1
    /\ pool[last.self].rewards.present
    /\ last.pre[last.self].log_pfs.present
    /\ ~pool[last.self].log_pfs.present

-----------------------------------------------------------------------------
(* Properties of to_transitions and revert_backward_trajectories *)

\* trajectory i has real actions exactly at the first when_is_done[i] times,
\* real states before them and the pad state of its direction after them
PaddingInvariant(c) ==
    /\ NCols(c.actions) = n_trajectories(c)
    /\ Len(c.when_is_done) = n_trajectories(c)
    /\ c.states.len = c.actions.len + 1
    /\ \A i \in 1..n_trajectories(c) :
          LET w == c.when_is_done[i]
          IN  /\ 0 <= w /\ w <= c.actions.len
              /\ \A t \in 1..c.actions.len : (c.actions.cols[i][t] # PadAction) <=> (t <= w)
              /\ \A t \in 1..c.states.len :
                    IF c.is_backward
                    THEN (c.states.cols[i][t] = s0) <=> (t >= w + 1)
                    ELSE (c.states.cols[i][t] = s_f) <=> (t >= w + 1)

\* the real steps of a padded batch, told by when_is_done alone
RealCells(c) ==
    SelectSeq(Cells(c.actions.len, n_trajectories(c)),
              LAMBDA cell : cell[1] <= c.when_is_done[cell[2]])

\* the step is the last real one of its trajectory
IsTerminalCell(c, cell) == cell[1] = c.when_is_done[cell[2]]

\* the source batch of the transitions just derived
DerivedFrom == pool[last.self]

\* every terminal transition carries the cached reward of its own
\* trajectory and every other transition carries -1.0
RewardsAttributed(c) ==
    /\ ~trans.err
    /\ trans.rewards.present
    /\ Len(trans.rewards.val) = Len(RealCells(c))
    /\ \A j \in 1..Len(RealCells(c)) :
          trans.rewards.val[j] =
              IF IsTerminalCell(c, RealCells(c)[j])
              THEN c.rewards.val[RealCells(c)[j][2]]
              ELSE Milli(-1)

\* a forward batch with cached rewards has just been turned into transitions
C1_Case ==
    /\ last.op = "to_transitions"
    /\ ~DerivedFrom.is_backward
    /\ DerivedFrom.rewards.present
    /\ PaddingInvariant(DerivedFrom)

C1_WitnessTie ==
    /\ C1_Case
    /\ ~trans.err
    /\ DerivedFrom.when_is_done = <<2, 2>>
    /\ DerivedFrom.rewards.val = <<Milli(2), Milli(1)>>

\* C2: for every batch keeping the padding invariant with when_is_done >= 1
\* throughout, each trajectory has exactly one transition flagged is_done,
\* the one of its last real action, and no other transition is flagged.
C2_TerminalFlags ==
    (/\ last.op = "to_transitions"
     /\ PaddingInvariant(DerivedFrom)
     /\ \A i \in 1..n_trajectories(DerivedFrom) : DerivedFrom.when_is_done[i] >= 1) =>
        \A i \in 1..n_trajectories(DerivedFrom) :
            /\ ~trans.err
            /\ Len(trans.is_done) = Len(RealCells(DerivedFrom))
            /\ \A j \in 1..Len(trans.is_done) :
                  trans.is_done[j] <=> IsTerminalCell(DerivedFrom, RealCells(DerivedFrom)[j])
            /\ Cardinality({j \in 1..Len(trans.is_done) :
                               trans.is_done[j] /\ RealCells(DerivedFrom)[j][2] = i}) = 1

\* a backward batch of two trajectories of different lengths went through
C2_Witness ==
    /\ last.op = "to_transitions" /\ ~trans.err
    /\ DerivedFrom.is_backward
    /\ PaddingInvariant(DerivedFrom)
    /\ DerivedFrom.when_is_done = <<2, 1>>
    /\ trans.is_done = <<FALSE, TRUE, TRUE>>

\* the batch handed to revert_backward_trajectories, and what it returned
Reverted == pool[last.other]

RevertedFrom == last.pre[last.self]

\* each trajectory reversed in place, with the exit action appended
RevertedColumns(c, r) ==
    /\ ~r.is_backward
    /\ n_trajectories(r) = n_trajectories(c)
    /\ NCols(r.actions) = n_trajectories(c)
    /\ \A i \in 1..n_trajectories(c) :
          LET w == c.when_is_done[i]
          IN  /\ r.when_is_done[i] = w + 1
              /\ \A t \in 1..w : r.actions.cols[i][t] = c.actions.cols[i][w + 1 - t]
              /\ r.actions.cols[i][w + 1] = n_actions - 1
              /\ \A t \in (w + 2)..r.actions.len : r.actions.cols[i][t] = PadAction
              /\ Len(r.actions.cols[i]) = r.actions.len
              /\ r.states.len >= w + 1
              /\ \A t \in 1..(w + 1) : r.states.cols[i][t] = c.states.cols[i][w + 2 - t]
              /\ \A t \in (w + 2)..r.states.len : r.states.cols[i][t] = s_f
              /\ Len(r.states.cols[i]) = r.states.len

C7_Case ==
    /\ last.op = "revert"
    /\ RevertedFrom.is_backward
    /\ PaddingInvariant(RevertedFrom)

\* C7 as stated: for every backward batch keeping the padding invariant,
\* revert_backward_trajectories returns a forward batch holding each
\* trajectory reversed: when_is_done + 1, the real actions in reverse, then
\* the exit action, then -1; the states 0..w in reverse, then the sink.
C7_Original == C7_Case => (~last.err /\ RevertedColumns(RevertedFrom, Reverted))

\* C7 amended: the same, for batches of at least one trajectory.
C7_RevertReverses ==
    (C7_Case /\ n_trajectories(RevertedFrom) >= 1) =>
        (~last.err /\ RevertedColumns(RevertedFrom, Reverted))

\* two backward trajectories of lengths 2 and 1 were reverted
C7_Witness ==
    /\ C7_Case /\ ~last.err
    /\ RevertedFrom.when_is_done = <<2, 1>>
    /\ Reverted.when_is_done = <<3, 2>>

\* C9: what revert_backward_trajectories returns for a non-empty backward
\* batch keeping the padding invariant is a well-formed forward batch: one
\* more time step of states than of actions, the sink state present at time
\* when_is_done[i] of every trajectory, so that to_transitions gives
\* sum_i when_is_done[i] transitions.
C9_RevertedIsWellFormed ==
    /\ (C7_Case /\ n_trajectories(RevertedFrom) >= 1 /\ ~last.err) =>
          /\ Reverted.states.len = Reverted.actions.len + 1
          /\ \A i \in 1..n_trajectories(Reverted) :
                /\ Reverted.when_is_done[i] + 1 <= Reverted.states.len
                /\ Reverted.states.cols[i][Reverted.when_is_done[i] + 1] = s_f
    /\ (/\ last.op = "to_transitions" /\ last.self = "b"
        /\ ~DerivedFrom.is_backward /\ n_trajectories(DerivedFrom) >= 1) =>
          /\ ~trans.err
          /\ Len(trans.actions) = Len(RealCells(DerivedFrom))

-----------------------------------------------------------------------------
(* Properties of the detailed-balance loss *)

\* C8: the loss of a forward batch holding a terminal transition of reward
\* 0.0 ends in an error and never returns a value, whatever the forward
\* log-probabilities and the log-flows are.
C8_ZeroRewardRaises ==
    (/\ last.op = "loss"
     /\ ~trans.is_backward
     /\ trans.rewards.present
     /\ \E j \in 1..Len(trans.is_done) : trans.is_done[j] /\ trans.rewards.val[j] = Milli(0)) =>
        loss.outcome # "returned"

\* every trajectory ends with the exit action and holds no other exit action
ExitTerminated(c) ==
    \A i \in 1..n_trajectories(c) :
        LET w == c.when_is_done[i]
        IN  /\ w >= 1
            /\ c.actions.cols[i][w] = n_actions - 1
            /\ \A t \in 1..(w - 1) : c.actions.cols[i][t] # n_actions - 1

\* the places of a sequence where a condition holds
Where(q, Cond(_)) == SelectSeq([j \in 1..Len(q) |-> j], LAMBDA j : Cond(q[j]))

C10_Case ==
    /\ last.op = "loss"
    /\ ~pool["a"].is_backward
    /\ pool["a"].rewards.present
    /\ PaddingInvariant(pool["a"])
    /\ ExitTerminated(pool["a"])

\* C10: on transitions derived from a forward batch whose trajectories each
\* end with their only exit action, 'action is not the exit action' and
\* 'is_done is false' select the same transitions in the same order, the
\* backward log-probability at a non-terminal place j is the backward policy
\* at next_states[j] taken at actions[j], and the exit action is never a
\* gather index of the backward policy.
C10_ExitMatchesTerminal ==
    C10_Case =>
        LET nonexit == Where(trans.actions, LAMBDA a : a # n_actions - 1)
            nonterminal == Where(trans.is_done, LAMBDA d : ~d)
            r == loss.scores
        IN  /\ ~r.err
            /\ nonexit = nonterminal
            /\ Len(r.pb_index) = Len(nonterminal)
            /\ Len(r.pb_states) = Len(nonterminal)
            /\ \A k \in 1..Len(nonterminal) :
                  /\ r.pb_index[k] = trans.actions[nonterminal[k]]
                  /\ r.pb_states[k] = trans.next_states[nonterminal[k]]
                  /\ r.pb_index[k] # n_actions - 1
            /\ Len(r.log_pb_actions) = Len(trans.actions)
            /\ \A j \in 1..Len(trans.actions) :
                  ~trans.is_done[j] =>
                      r.log_pb_actions[j] = LogPB(trans.next_states[j], trans.actions[j])

\* two trajectories with different non-terminal steps were scored
C10_Witness ==
    /\ C10_Case
    /\ ~loss.scores.err
    /\ pool["a"].when_is_done = <<2, 2>>
    /\ loss.scores.pb_index = <<0, 1>>
    /\ loss.scores.pb_states = <<1, 2>>

====
